---------------------------- MODULE Spec2Model ----------------------------
(***************************************************************************)
(* The Wild Apricot OAuth provider adapter of better-auth                  *)
(* (packages/better-auth/src/social-providers/wildapricot.ts).             *)
(*                                                                         *)
(* wildApricot(options) captures a configuration and returns an object     *)
(* with four operations.  createAuthorizationURL is synchronous; the other *)
(* three are async functions that suspend once, on `await`, and resume     *)
(* when the awaited promise settles.  An invocation is modelled as a small *)
(* process: idle -> awaiting -> done.                                      *)
(*                                                                         *)
(* JavaScript values are tagged records; every tag has its own payload     *)
(* field so that values of different types can be compared.                *)
(***************************************************************************)
EXTENDS Integers, Sequences, FiniteSets

(***************************************************************************)
(* Bounds of the model.                                                    *)
(***************************************************************************)
MaxClock == 2
MaxCalls == 2

(***************************************************************************)
(* JavaScript values.                                                      *)
(***************************************************************************)
Undef == [t |-> "undefined"]
Null == [t |-> "null"]
Str(s) == [t |-> "string", s |-> s]
Num(n) == [t |-> "number", n |-> n]
Bool(b) == [t |-> "boolean", b |-> b]
Arr(items) == [t |-> "array", items |-> items]
Obj(props) == [t |-> "object", props |-> props]
DateOf(ms) == [t |-> "date", ms |-> ms]

\* The empty object literal {}.
EmptyProps == [k \in {} |-> Undef]

\* ToBoolean: what `x ? a : b`, `x || y` and `!x` test.
Truthy(v) ==
    CASE v.t = "undefined" -> FALSE
      [] v.t = "null" -> FALSE
      [] v.t = "boolean" -> v.b
      [] v.t = "number" -> v.n # 0
      [] v.t = "string" -> v.s # ""
      [] OTHER -> TRUE

\* What `v ?? d` tests: only undefined and null are nullish.
Nullish(v) == v.t \in {"undefined", "null"}

\* a || b
OrElse(a, b) == IF Truthy(a) THEN a ELSE b

\* a ?? b
Coalesce(a, b) == IF Nullish(a) THEN b ELSE a

\* o.k: a property that is not there reads as undefined.
Get(o, k) == IF o.t = "object" /\ k \in DOMAIN o.props THEN o.props[k] ELSE Undef

\* o?.k
OptGet(o, k) == IF Nullish(o) THEN Undef ELSE Get(o, k)

\* {...a, ...b}: the own properties of a, then those of b; b wins.
Spread(a, b) ==
    [k \in (DOMAIN a) \cup (DOMAIN b) |-> IF k \in DOMAIN b THEN b[k] ELSE a[k]]

DigitChar(d) ==
    CASE d = 0 -> "0" [] d = 1 -> "1" [] d = 2 -> "2" [] d = 3 -> "3"
      [] d = 4 -> "4" [] d = 5 -> "5" [] d = 6 -> "6" [] d = 7 -> "7"
      [] d = 8 -> "8" [] d = 9 -> "9"

RECURSIVE Digits(_)
Digits(n) == IF n < 10 THEN DigitChar(n) ELSE Digits(n \div 10) \o DigitChar(n % 10)

\* String(v) and the conversion of `${v}`, for the values the adapter meets.
String(v) ==
    CASE v.t = "string" -> v.s
      [] v.t = "number" -> IF v.n < 0 THEN "-" \o Digits(-v.n) ELSE Digits(v.n)
      [] v.t = "boolean" -> IF v.b THEN "true" ELSE "false"
      [] v.t = "null" -> "null"
      [] OTHER -> "undefined"

\* Array.prototype.includes on an array of strings (SameValueZero: no coercion).
Includes(items, v) == v.t = "string" /\ \E j \in 1..Len(items) : items[j] = v.s

\* String.prototype.split(" ") on a string given as its sequence of characters:
\* the pieces between separators, empty pieces kept.
RECURSIVE SplitFrom(_, _, _)
SplitFrom(chars, j, piece) ==
    IF j > Len(chars) THEN <<piece>>
    ELSE IF chars[j] = " " THEN <<piece>> \o SplitFrom(chars, j + 1, <<>>)
    ELSE SplitFrom(chars, j + 1, Append(piece, chars[j]))

Split(chars) == SplitFrom(chars, 1, <<>>)

(***************************************************************************)
(* The configuration: WildApricotOptions.  mapProfileToUser is a caller's  *)
(* function; the model names a few such functions and ApplyMapper says     *)
(* what each returns.  "absent" is the option left out.                    *)
(***************************************************************************)
Mappers ==
    {"absent", "returnsUndefined", "returnsEmpty", "adminFalse", "overrideId",
     "overrideMembership", "statusUndefined"}

ApplyMapper(m, profile) ==
    CASE m = "returnsUndefined" -> Undef
      [] m = "returnsEmpty" -> Obj(EmptyProps)
      [] m = "adminFalse" -> Obj([isAdmin |-> Bool(FALSE)])
      [] m = "overrideId" -> Obj([id |-> Str("")])
      [] m = "overrideMembership" ->
            Obj([membershipStatus |-> Str("VIP"),
                 isActiveMember |-> Bool(TRUE),
                 roleCount |-> Get(profile, "Id")])
      [] m = "statusUndefined" -> Obj([membershipStatus |-> Undef])

SiteNames == {Undef, Str(""), Str("club")}

ScopeLists ==
    {Undef, Arr(<<>>), Arr(<<"contacts_me">>), Arr(<<"a", "b">>), Arr(<<"b", "a">>)}

AllOptions ==
    [clientId : {Str("cid")}, clientSecret : {Str("secret")}, siteName : SiteNames,
     accountId : {Str("42")}, redirectURI : {Undef, Str("https://app/cb")},
     scopes : ScopeLists, mapProfileToUser : Mappers]

(***************************************************************************)
(* wildApricot(options): the values derived at construction.               *)
(***************************************************************************)
WA_SITE_URL(opts) ==
    IF Truthy(opts.siteName)
    THEN "https://" \o String(opts.siteName) \o ".wildapricot.org"
    ELSE "https://www.wildapricot.org"

WA_BASE_URL == "https://oauth.wildapricot.org"

WA_API_URL == "https://api.wildapricot.org"

(***************************************************************************)
(* createAuthorizationURL(data): the argument handed to the shared helper. *)
(***************************************************************************)
DefaultScopes == Arr(<<"contacts_me">>)

\* scopes || ["contacts_me"]
AuthorizationScopesNonEmpty(opts) ==
    IF opts.scopes.t = "array" /\ Len(opts.scopes.items) > 0
    THEN opts.scopes
    ELSE DefaultScopes

AuthorizationScopes(opts) == OrElse(opts.scopes, DefaultScopes)

createAuthorizationURL(opts, data) ==
    [id |-> "wildapricot",
     options |-> [clientId |-> opts.clientId, clientSecret |-> opts.clientSecret,
                  redirectURI |-> opts.redirectURI],
     authorizationEndpoint |-> WA_SITE_URL(opts) \o "/sys/login/OAuthLogin",
     state |-> data.state,
     scopes |-> AuthorizationScopes(opts),
     redirectURI |-> data.redirectURI]

(***************************************************************************)
(* validateAuthorizationCode(data): the argument handed to the helper.     *)
(***************************************************************************)
validateAuthorizationCode(opts, data) ==
    [code |-> data.code,
     codeVerifier |-> data.codeVerifier,
     redirectURI |-> data.redirectURI,
     options |-> [clientId |-> opts.clientId, clientSecret |-> opts.clientSecret,
                  redirectURI |-> opts.redirectURI],
     tokenEndpoint |-> WA_BASE_URL \o "/auth/token",
     authentication |-> "basic"]

(***************************************************************************)
(* Outcomes of an invocation, and what an awaited promise settles to.      *)
(***************************************************************************)
Returned(v) == [kind |-> "return", value |-> v]
Thrown(e) == [kind |-> "throw", error |-> e]
NoOutcome == [kind |-> "none"]

APIError(status, message) == [name |-> "APIError", status |-> status, message |-> message]
TypeError == [name |-> "TypeError"]

\* betterFetch resolves to {data, error}; the promise itself may also reject.
Fulfilled(data, error) == [settled |-> "fulfilled", data |-> data, error |-> error]
Rejected(reason) == [settled |-> "rejected", reason |-> reason]

(***************************************************************************)
(* refreshAccessToken(refreshToken).                                       *)
(***************************************************************************)
\* The requests issued up to the await: one betterFetch call.  The
\* Authorization header carries the base64 of clientId:clientSecret; the
\* text before encoding is kept here.
refreshRequestsTwice(opts, refreshToken) ==
    LET req == [url |-> WA_BASE_URL \o "/auth/token",
                method |-> "POST",
                authorization |->
                    [scheme |-> "Basic",
                     credentials |-> String(opts.clientId) \o ":" \o String(opts.clientSecret)],
                body |-> [grant_type |-> "refresh_token", refresh_token |-> refreshToken]]
    IN  <<req, req>>

refreshRequests(opts, refreshToken) ==
    <<[url |-> WA_BASE_URL \o "/auth/token",
       method |-> "POST",
       authorization |->
           [scheme |-> "Basic",
            credentials |-> String(opts.clientId) \o ":" \o String(opts.clientSecret)],
       body |-> [grant_type |-> "refresh_token", refresh_token |-> refreshToken]]>>

\* throw new APIError("BAD_REQUEST", {message: "Failed to refresh access token"})
refreshFailureLeaky(response) ==
    Thrown(APIError("BAD_REQUEST", String(Get(response.error, "message"))))

refreshFailure(response) ==
    Thrown(APIError("BAD_REQUEST", "Failed to refresh access token"))

\* expires_in ? new Date(Date.now() + expires_in * 1000) : undefined
accessTokenExpiresAtSeconds(expires_in, clock) ==
    IF Truthy(expires_in) THEN DateOf(clock + expires_in.n) ELSE Undef

accessTokenExpiresAt(expires_in, clock) ==
    IF Truthy(expires_in) THEN DateOf(clock + expires_in.n * 1000) ELSE Undef

\* response.data.scope?.split(" "); a scope string is held as its characters.
refreshedScopes(scope) == IF Nullish(scope) THEN Undef ELSE Arr(Split(scope.chars))

\* The code after the await, given what the promise settled to and Date.now().
\* A rejection is rethrown by the await; response.data.access_token on a
\* null data is a TypeError.
refreshAccessTokenResume(response, clock) ==
    IF response.settled = "rejected"
    THEN Thrown(response.reason)
    ELSE IF Truthy(response.error)
    THEN refreshFailure(response)
    ELSE IF Nullish(response.data)
    THEN Thrown(TypeError)
    ELSE Returned([accessToken |-> Get(response.data, "access_token"),
                   refreshToken |-> Get(response.data, "refresh_token"),
                   accessTokenExpiresAt |->
                       accessTokenExpiresAt(Get(response.data, "expires_in"), clock),
                   scopes |-> refreshedScopes(Get(response.data, "scope"))])

(***************************************************************************)
(* getUserInfo(tokens).                                                    *)
(***************************************************************************)
\* The requests issued up to the await: one betterFetch call.
getUserInfoRequests(opts, tokens) ==
    <<[url |-> WA_API_URL \o "/v2.1/accounts/" \o String(opts.accountId) \o "/contacts/me",
       method |-> "GET",
       authorization |-> [scheme |-> "Bearer", credentials |-> String(tokens.accessToken)],
       accept |-> "application/json"]>>

\* if (userInfo.error || !userInfo.data) return null
userInfoMissingErrorOnly(userInfo) == Truthy(userInfo.error)

userInfoMissing(userInfo) == Truthy(userInfo.error) \/ ~Truthy(userInfo.data)

isActiveMemberOnlyActive(status) == Includes(<<"Active", "PendingRenewal">>, status)

isActiveMember(status) ==
    Includes(<<"Active", "PendingRenewal", "PendingLevelChange">>, status)

baseUserRawId(profile) ==
    [id |-> Get(profile, "Id"),
     name |-> Str(String(Get(profile, "FirstName")) \o " " \o String(Get(profile, "LastName"))),
     email |-> Get(profile, "Email"),
     emailVerified |-> Bool(TRUE),
     image |-> Null]

baseUser(profile) ==
    [id |-> Str(String(Get(profile, "Id"))),
     name |-> Str(String(Get(profile, "FirstName")) \o " " \o String(Get(profile, "LastName"))),
     email |-> Get(profile, "Email"),
     emailVerified |-> Bool(TRUE),
     image |-> Null]

\* Whether options.mapProfileToUser?.(profile) calls the function.
mapperCalled(opts) == opts.mapProfileToUser # "absent"

\* options.mapProfileToUser?.(profile) || {}
additionalFields(opts, profile) ==
    IF mapperCalled(opts)
    THEN OrElse(ApplyMapper(opts.mapProfileToUser, profile), Obj(EmptyProps))
    ELSE Obj(EmptyProps)

\* profile.Status ?? "NoMembership"
membershipStatusFalsy(profile) == OrElse(Get(profile, "Status"), Str("NoMembership"))

membershipStatus(profile) == Coalesce(Get(profile, "Status"), Str("NoMembership"))

\* profile.MembershipLevel?.Name ?? null
membershipLevel(profile) == Coalesce(OptGet(Get(profile, "MembershipLevel"), "Name"), Null)

defaultFields(profile) ==
    [membershipStatus |-> membershipStatus(profile),
     membershipLevel |-> membershipLevel(profile),
     isActiveMember |-> Bool(isActiveMember(Get(profile, "Status"))),
     isAdmin |-> Get(profile, "IsAccountAdministrator")]

\* {...baseUser, <defaults>, ...additionalFields}
normalizedUserDefaultsLast(opts, profile) ==
    Spread(additionalFields(opts, profile).props,
           Spread(baseUser(profile), defaultFields(profile)))

normalizedUser(opts, profile) ==
    Spread(Spread(baseUser(profile), defaultFields(profile)),
           additionalFields(opts, profile).props)

\* The code after the await, given what the promise settled to.
getUserInfoResume(opts, userInfo) ==
    IF userInfo.settled = "rejected"
    THEN Thrown(userInfo.reason)
    ELSE IF userInfoMissing(userInfo)
    THEN Returned(Null)
    ELSE Returned([user |-> Obj(normalizedUser(opts, userInfo.data)),
                   data |-> userInfo.data])

\* How many times the mapping function runs in the code after the await.
mapperCalls(opts, userInfo) ==
    IF userInfo.settled = "fulfilled" /\ ~userInfoMissing(userInfo) /\ mapperCalled(opts)
    THEN 1
    ELSE 0

(***************************************************************************)
(* validateAuthorizationCode: the async function returns the helper's      *)
(* promise, so the helper's result or rejection is the invocation's.       *)
(***************************************************************************)
validateAuthorizationCodeResume(r) ==
    IF r.settled = "rejected" THEN Thrown(r.reason) ELSE Returned(r.value)

(***************************************************************************)
(* The environment: what callers pass in and what the upstream answers.    *)
(***************************************************************************)
ProfileKeys(status, level) ==
    {"Id", "FirstName", "LastName", "Email", "IsAccountAdministrator",
     "AdministrativeRoleTypes"}
        \cup (IF status = Undef THEN {} ELSE {"Status"})
        \cup (IF level = Undef THEN {} ELSE {"MembershipLevel"})

\* A RemoteProfile; a Status or MembershipLevel of Undef is a key left out.
ProfileOf(id, status, level, admin) ==
    Obj([k \in ProfileKeys(status, level) |->
            CASE k = "Id" -> Num(id)
              [] k = "FirstName" -> Str("Ada")
              [] k = "LastName" -> Str("Lovelace")
              [] k = "Email" -> Str("ada@example.org")
              [] k = "Status" -> status
              [] k = "MembershipLevel" -> level
              [] k = "IsAccountAdministrator" -> Bool(admin)
              [] k = "AdministrativeRoleTypes" -> Arr(<<>>)])

ProfileIds == {0, 7, 1024}

Statuses ==
    {Undef, Null, Str(""), Str("Active"), Str("PendingRenewal"),
     Str("PendingLevelChange"), Str("Lapsed"), Str("active")}

Levels == {Undef, Obj([Id |-> Num(1), Name |-> Str("Gold")])}

Profiles ==
    {ProfileOf(id, st, lv, ad) : id \in ProfileIds, st \in Statuses, lv \in Levels,
                                 ad \in BOOLEAN}

UpstreamErrors ==
    {Obj([status |-> Num(401), message |-> Str("invalid_grant")]),
     Obj([status |-> Num(500), message |-> Str("Failed to refresh access token")])}

NetworkError == [name |-> "FetchError"]

UserInfoResults ==
    {Rejected(NetworkError)}
        \cup {Fulfilled(Null, e) : e \in UpstreamErrors}
        \cup {Fulfilled(d, Null) : d \in {Null, Undef, Str("")}}
        \cup {Fulfilled(p, Null) : p \in Profiles}

ScopeText(chars) == [t |-> "string", chars |-> chars]

TokenData(expires_in, scope) ==
    Obj([k \in {"access_token", "refresh_token"}
                \cup (IF expires_in = Undef THEN {} ELSE {"expires_in"})
                \cup (IF scope = Undef THEN {} ELSE {"scope"}) |->
            CASE k = "access_token" -> Str("at2")
              [] k = "refresh_token" -> Str("rt2")
              [] k = "expires_in" -> expires_in
              [] k = "scope" -> scope])

ExpiresIn == {Undef, Null, Num(0), Num(1), Num(3600)}

ScopeTexts == {Undef, ScopeText(<<>>), ScopeText(<<"a">>), ScopeText(<<"a", " ", "b">>)}

RefreshResults ==
    {Rejected(NetworkError)}
        \cup {Fulfilled(Null, e) : e \in UpstreamErrors}
        \cup {Fulfilled(Null, Null)}
        \cup {Fulfilled(TokenData(x, sc), Null) : x \in ExpiresIn, sc \in ScopeTexts}

HelperResults ==
    {Rejected([name |-> "OAuthError"]),
     [settled |-> "fulfilled", value |-> [accessToken |-> Str("at1")]]}

Env ==
    [options |-> AllOptions,
     calls |-> {1},
     userInfoResults |-> UserInfoResults,
     refreshResults |-> RefreshResults]

(***************************************************************************)
(* The state.                                                              *)
(***************************************************************************)
VARIABLES
    options,      \* the configuration captured by wildApricot(options)
    now,          \* Date.now()
    op,           \* per invocation: the operation called
    pc,           \* per invocation: "idle", "awaiting" or "done"
    input,        \* per invocation: its argument
    requests,     \* per invocation: the betterFetch requests it has issued
    helperCalls,  \* per invocation: its calls of the shared OAuth2 helpers
    response,     \* per invocation: what its awaited promise settled to
    outcome,      \* per invocation: what it returned or threw
    mapperRuns,   \* per invocation: how often mapProfileToUser ran
    calledAt,     \* per invocation: the clock when it was called
    resumedAt     \* per invocation: the clock when it resumed after the await

vars ==
    <<options, now, op, pc, input, requests, helperCalls, response, outcome,
      mapperRuns, calledAt, resumedAt>>

Calls == DOMAIN pc

InitOf(env) ==
    /\ options \in env.options
    /\ now = 0
    /\ op = [i \in env.calls |-> "none"]
    /\ pc = [i \in env.calls |-> "idle"]
    /\ input = [i \in env.calls |-> Undef]
    /\ requests = [i \in env.calls |-> <<>>]
    /\ helperCalls = [i \in env.calls |-> <<>>]
    /\ response = [i \in env.calls |-> Undef]
    /\ outcome = [i \in env.calls |-> NoOutcome]
    /\ mapperRuns = [i \in env.calls |-> 0]
    /\ calledAt = [i \in env.calls |-> 0]
    /\ resumedAt = [i \in env.calls |-> 0]

\* The clock advances between any two steps.
Tick ==
    /\ now < MaxClock
    /\ now' = now + 1
    /\ UNCHANGED <<options, op, pc, input, requests, helperCalls, response, outcome,
                   mapperRuns, calledAt, resumedAt>>

\* What `await p` evaluates to in invocation i when p settles to r: the
\* result is held in a local of the invocation.
awaitedShared(i, r) ==
    IF \E j \in DOMAIN pc : j # i /\ pc[j] = "done" /\ op[j] = op[i]
    THEN response[CHOOSE j \in DOMAIN pc : j # i /\ pc[j] = "done" /\ op[j] = op[i]]
    ELSE r

awaited(i, r) == r

\* An invocation begins: the code up to its first await (or to its return).
Begin(i, name, arg, reqs, helpers) ==
    /\ pc[i] = "idle"
    /\ op' = [op EXCEPT ![i] = name]
    /\ input' = [input EXCEPT ![i] = arg]
    /\ requests' = [requests EXCEPT ![i] = reqs]
    /\ helperCalls' = [helperCalls EXCEPT ![i] = helpers]
    /\ calledAt' = [calledAt EXCEPT ![i] = now]
    /\ UNCHANGED <<options, now, response, mapperRuns>>

\* An invocation resumes after its await and runs to its end.
Finish(i, r, result, runs) ==
    /\ pc' = [pc EXCEPT ![i] = "done"]
    /\ response' = [response EXCEPT ![i] = r]
    /\ outcome' = [outcome EXCEPT ![i] = result]
    /\ mapperRuns' = [mapperRuns EXCEPT ![i] = runs]
    /\ resumedAt' = [resumedAt EXCEPT ![i] = now]
    /\ UNCHANGED <<options, now, op, input, requests, helperCalls, calledAt>>

CallCreateAuthorizationURL(i, data) ==
    /\ Begin(i, "createAuthorizationURL", data, <<>>,
             <<[helper |-> "createAuthorizationURL",
                args |-> createAuthorizationURL(options, data)]>>)
    /\ pc' = [pc EXCEPT ![i] = "done"]
    /\ outcome' = [outcome EXCEPT ![i] = Returned([t |-> "helperResult"])]
    /\ resumedAt' = [resumedAt EXCEPT ![i] = now]

CallValidateAuthorizationCode(i, data) ==
    /\ Begin(i, "validateAuthorizationCode", data, <<>>,
             <<[helper |-> "validateAuthorizationCode",
                args |-> validateAuthorizationCode(options, data)]>>)
    /\ pc' = [pc EXCEPT ![i] = "awaiting"]
    /\ UNCHANGED <<outcome, resumedAt>>

ResumeValidateAuthorizationCode(i, r) ==
    /\ pc[i] = "awaiting"
    /\ op[i] = "validateAuthorizationCode"
    /\ Finish(i, r, validateAuthorizationCodeResume(awaited(i, r)), 0)

CallRefreshAccessToken(i, refreshToken) ==
    /\ Begin(i, "refreshAccessToken", refreshToken,
             refreshRequests(options, refreshToken), <<>>)
    /\ pc' = [pc EXCEPT ![i] = "awaiting"]
    /\ UNCHANGED <<outcome, resumedAt>>

ResumeRefreshAccessToken(i, r) ==
    /\ pc[i] = "awaiting"
    /\ op[i] = "refreshAccessToken"
    /\ Finish(i, r, refreshAccessTokenResume(awaited(i, r), now), 0)

CallGetUserInfo(i, tokens) ==
    /\ Begin(i, "getUserInfo", tokens, getUserInfoRequests(options, tokens), <<>>)
    /\ pc' = [pc EXCEPT ![i] = "awaiting"]
    /\ UNCHANGED <<outcome, resumedAt>>

ResumeGetUserInfo(i, r) ==
    /\ pc[i] = "awaiting"
    /\ op[i] = "getUserInfo"
    /\ Finish(i, r, getUserInfoResume(options, awaited(i, r)),
              mapperCalls(options, awaited(i, r)))

AuthorizationData ==
    {[state |-> Str("st"), redirectURI |-> u] : u \in {Undef, Str("https://app/cb2")}}

CodeData ==
    {[code |-> Str("code"), codeVerifier |-> Str("verifier"),
      redirectURI |-> Str("https://app/cb2")]}

RefreshTokens == {Str("rt1")}

TokenSets == {[accessToken |-> Str("at1")]}

NextOf(env) ==
    \/ Tick
    \/ \E i \in Calls, data \in AuthorizationData : CallCreateAuthorizationURL(i, data)
    \/ \E i \in Calls, data \in CodeData : CallValidateAuthorizationCode(i, data)
    \/ \E i \in Calls, r \in HelperResults : ResumeValidateAuthorizationCode(i, r)
    \/ \E i \in Calls, t \in RefreshTokens : CallRefreshAccessToken(i, t)
    \/ \E i \in Calls, r \in env.refreshResults : ResumeRefreshAccessToken(i, r)
    \/ \E i \in Calls, t \in TokenSets : CallGetUserInfo(i, t)
    \/ \E i \in Calls, r \in env.userInfoResults : ResumeGetUserInfo(i, r)

Init == InitOf(Env)

Next == NextOf(Env)

Spec == Init /\ [][Next]_vars

(***************************************************************************)
(* Several invocations in flight on one adapter, interleaved at their      *)
(* awaits, over a smaller environment.                                     *)
(***************************************************************************)
EnvConc ==
    [options |-> {o \in AllOptions :
                    /\ o.siteName = Undef
                    /\ o.redirectURI = Undef
                    /\ o.scopes = Undef
                    /\ o.mapProfileToUser \in {"absent", "adminFalse"}},
     calls |-> 1..MaxCalls,
     userInfoResults |->
         {Fulfilled(Null, Obj([status |-> Num(401), message |-> Str("invalid_grant")])),
          Fulfilled(ProfileOf(7, Str("Active"), Undef, TRUE), Null),
          Fulfilled(ProfileOf(1024, Str("Lapsed"), Undef, FALSE), Null)},
     refreshResults |->
         {Fulfilled(Null, Obj([status |-> Num(401), message |-> Str("invalid_grant")])),
          Fulfilled(TokenData(Num(1), Undef), Null)}]

InitConc == InitOf(EnvConc)

NextConc == NextOf(EnvConc)

SpecConc == InitConc /\ [][NextConc]_vars

(***************************************************************************)
(* Properties.                                                             *)
(***************************************************************************)
Done(i, name) == pc[i] = "done" /\ op[i] = name

\* A getUserInfo invocation that returned {user, data}.
GotUser(i) ==
    /\ Done(i, "getUserInfo")
    /\ outcome[i].kind = "return"
    /\ outcome[i].value # Null

UserOf(i) == outcome[i].value.user.props

ProfileSeen(i) == response[i].data

\* The keys the configured mapping function returned for invocation i.
MappedKeys(i) ==
    IF options.mapProfileToUser = "absent"
    THEN {}
    ELSE LET m == ApplyMapper(options.mapProfileToUser, ProfileSeen(i))
         IN  IF m.t = "object" THEN DOMAIN m.props ELSE {}

\* C1: a getUserInfo whose profile request resolves with an error or with no
\* data returns null, and the mapping function has not run.
C1_NullOnErrorOrNoData ==
    \A i \in Calls :
        (/\ Done(i, "getUserInfo")
         /\ response[i].settled = "fulfilled"
         /\ (Truthy(response[i].error) \/ ~Truthy(response[i].data)))
            => (outcome[i] = Returned(Null) /\ mapperRuns[i] = 0)

C1_Witness ==
    \E i \in Calls :
        /\ Done(i, "getUserInfo")
        /\ response[i].settled = "fulfilled"
        /\ ~Truthy(response[i].error)
        /\ ~Truthy(response[i].data)
        /\ options.mapProfileToUser = "adminFalse"
        /\ outcome[i] = Returned(Null)

\* C2: a refreshAccessToken whose token request resolves with an error throws
\* an APIError BAD_REQUEST with the fixed message, whatever the upstream said.
C2_RefreshErrorIsBadRequest ==
    \A i \in Calls :
        (/\ Done(i, "refreshAccessToken")
         /\ response[i].settled = "fulfilled"
         /\ Truthy(response[i].error))
            => outcome[i] =
                 [kind |-> "throw",
                  error |-> [name |-> "APIError", status |-> "BAD_REQUEST",
                             message |-> "Failed to refresh access token"]]

C2_Witness ==
    \E i \in Calls :
        /\ Done(i, "refreshAccessToken")
        /\ response[i].settled = "fulfilled"
        /\ Truthy(response[i].error)
        /\ Get(response[i].error, "message") = Str("invalid_grant")
        /\ outcome[i].kind = "throw"

\* C3: with a mapping function configured, every key it returns has its value
\* in the normalized user, and every other default field keeps its default.
C3_MappingOverridesDefaults ==
    \A i \in Calls :
        (GotUser(i) /\ options.mapProfileToUser # "absent")
            => LET m == ApplyMapper(options.mapProfileToUser, ProfileSeen(i))
                   returned == IF m.t = "object" THEN m.props ELSE EmptyProps
                   defaults == Spread(baseUser(ProfileSeen(i)), defaultFields(ProfileSeen(i)))
               IN  /\ \A k \in DOMAIN returned :
                        k \in DOMAIN UserOf(i) /\ UserOf(i)[k] = returned[k]
                   /\ \A k \in (DOMAIN defaults) \ (DOMAIN returned) :
                        k \in DOMAIN UserOf(i) /\ UserOf(i)[k] = defaults[k]

C3_Witness ==
    \E i \in Calls :
        /\ GotUser(i)
        /\ options.mapProfileToUser = "adminFalse"
        /\ Get(ProfileSeen(i), "IsAccountAdministrator") = Bool(TRUE)
        /\ UserOf(i)["isAdmin"] = Bool(FALSE)
        /\ UserOf(i)["membershipLevel"] = Str("Gold")

\* The decimal text of the profile ids of the model, written out.
DecimalText(n) ==
    CASE n = 0 -> "0" [] n = 7 -> "7" [] n = 1024 -> "1024" [] OTHER -> "?"

IdIsTextOfRemoteId(i) ==
    /\ UserOf(i)["id"].t = "string"
    /\ UserOf(i)["id"].s # ""
    /\ UserOf(i)["id"].s = DecimalText(Get(ProfileSeen(i), "Id").n)

\* C4, as claimed: in every non-null result of getUserInfo, under every
\* configuration, user.id is the non-empty decimal text of the remote Id.
C4_IdAlwaysRemoteId == \A i \in Calls : GotUser(i) => IdIsTextOfRemoteId(i)

\* C4, amended: in every non-null result of getUserInfo whose mapping function
\* returns no id key, user.id is the non-empty decimal text of the remote Id.
C4_IdIsRemoteIdUnlessMapped ==
    \A i \in Calls : (GotUser(i) /\ "id" \notin MappedKeys(i)) => IdIsTextOfRemoteId(i)

C4_Witness ==
    \E i \in Calls :
        /\ GotUser(i)
        /\ options.mapProfileToUser = "overrideMembership"
        /\ Get(ProfileSeen(i), "Id") = Num(1024)
        /\ UserOf(i)["id"] = Str("1024")

\* C5, as claimed: without a mapping override, membershipStatus is
\* "NoMembership" when the remote Status is falsy (absent, null or ""), and
\* the remote Status otherwise.
C5_NoMembershipWhenFalsy ==
    \A i \in Calls :
        (GotUser(i) /\ "membershipStatus" \notin MappedKeys(i))
            => UserOf(i)["membershipStatus"] =
                 (IF Get(ProfileSeen(i), "Status") \in {Undef, Null, Str("")}
                  THEN Str("NoMembership")
                  ELSE Get(ProfileSeen(i), "Status"))

\* C5, amended: without a mapping override, membershipStatus is
\* "NoMembership" when the remote Status is absent or null, and the remote
\* Status otherwise, the empty string included.
C5_NoMembershipWhenNullish ==
    \A i \in Calls :
        (GotUser(i) /\ "membershipStatus" \notin MappedKeys(i))
            => UserOf(i)["membershipStatus"] =
                 (IF Get(ProfileSeen(i), "Status") \in {Undef, Null}
                  THEN Str("NoMembership")
                  ELSE Get(ProfileSeen(i), "Status"))

C5_Witness ==
    \E i \in Calls :
        /\ GotUser(i)
        /\ "membershipStatus" \notin MappedKeys(i)
        /\ "Status" \notin DOMAIN ProfileSeen(i).props
        /\ UserOf(i)["membershipStatus"] = Str("NoMembership")

\* C6: without a mapping override, isActiveMember is true exactly when the
\* remote Status is "Active", "PendingRenewal" or "PendingLevelChange".
C6_ActiveMemberIffActiveStatus ==
    \A i \in Calls :
        (GotUser(i) /\ "isActiveMember" \notin MappedKeys(i))
            => UserOf(i)["isActiveMember"] =
                 Bool(Get(ProfileSeen(i), "Status") \in
                        {Str("Active"), Str("PendingRenewal"), Str("PendingLevelChange")})

C6_Witness ==
    \E i \in Calls :
        /\ GotUser(i)
        /\ "isActiveMember" \notin MappedKeys(i)
        /\ Get(ProfileSeen(i), "Status") = Str("PendingLevelChange")
        /\ UserOf(i)["isActiveMember"] = Bool(TRUE)

ExpiryFrom(i, clock) ==
    LET x == Get(response[i].data, "expires_in")
    IN  IF x.t = "number" /\ x.n # 0 THEN DateOf(clock + x.n * 1000) ELSE Undef

Refreshed(i) == Done(i, "refreshAccessToken") /\ outcome[i].kind = "return"

\* C7, as claimed: a successful refreshAccessToken gives accessTokenExpiresAt
\* as the clock at the call plus expires_in * 1000 ms when expires_in is a
\* non-zero number, and leaves it absent when expires_in is 0 or absent.
C7_ExpiryFromCallTime ==
    \A i \in Calls :
        Refreshed(i) => outcome[i].value.accessTokenExpiresAt = ExpiryFrom(i, calledAt[i])

\* C7, amended: the clock is the one read when the invocation resumes with
\* the upstream response, not the one at the call.
C7_ExpiryFromResumeTime ==
    \A i \in Calls :
        Refreshed(i) => outcome[i].value.accessTokenExpiresAt = ExpiryFrom(i, resumedAt[i])

C7_Witness ==
    \E i \in Calls :
        /\ Refreshed(i)
        /\ Get(response[i].data, "expires_in") = Num(3600)
        /\ calledAt[i] = 0
        /\ resumedAt[i] = 2
        /\ outcome[i].value.accessTokenExpiresAt = DateOf(3600002)

\* C8: the scope list createAuthorizationURL hands to the helper is
\* ["contacts_me"] when scopes is left out of the configuration and the
\* configured list itself otherwise, an empty list included.
C8_ScopesDefaultOrVerbatim ==
    \A i \in Calls :
        Done(i, "createAuthorizationURL")
            => /\ Len(helperCalls[i]) = 1
               /\ helperCalls[i][1].args.scopes =
                    (IF options.scopes = Undef
                     THEN [t |-> "array", items |-> <<"contacts_me">>]
                     ELSE options.scopes)

C8_Witness ==
    \E i \in Calls :
        /\ Done(i, "createAuthorizationURL")
        /\ options.scopes = Arr(<<>>)
        /\ helperCalls[i][1].args.scopes = Arr(<<>>)

OneRequestOneOutcome ==
    \A i \in Calls :
        op[i] \in {"refreshAccessToken", "getUserInfo"}
            => /\ Len(requests[i]) = 1
               /\ pc[i] = "awaiting" => outcome[i] = NoOutcome
               /\ pc[i] = "done" => outcome[i].kind \in {"return", "throw"}

OutcomeIsFinal ==
    \A i \in Calls :
        pc[i] = "done"
            => /\ pc'[i] = "done"
               /\ outcome'[i] = outcome[i]
               /\ requests'[i] = requests[i]

\* C9: an invocation of refreshAccessToken or getUserInfo has issued exactly
\* one request, ends with one outcome, and once it has ended neither its
\* outcome nor its requests change: no second request after a failure.
C9_SingleRequestSingleOutcome == []OneRequestOneOutcome /\ [][OutcomeIsFinal]_vars

C9_Witness ==
    \E i \in Calls :
        /\ Done(i, "refreshAccessToken")
        /\ response[i].settled = "fulfilled"
        /\ Truthy(response[i].error)
        /\ Len(requests[i]) = 1
        /\ outcome[i].kind = "throw"

\* What invocation i gives when it runs alone with its input and its response.
AloneOutcome(i) ==
    CASE op[i] = "createAuthorizationURL" -> Returned([t |-> "helperResult"])
      [] op[i] = "validateAuthorizationCode" -> validateAuthorizationCodeResume(response[i])
      [] op[i] = "refreshAccessToken" -> refreshAccessTokenResume(response[i], resumedAt[i])
      [] op[i] = "getUserInfo" -> getUserInfoResume(options, response[i])

AloneRequests(i) ==
    CASE op[i] = "refreshAccessToken" -> refreshRequests(options, input[i])
      [] op[i] = "getUserInfo" -> getUserInfoRequests(options, input[i])
      [] OTHER -> <<>>

Independent ==
    \A i \in Calls :
        /\ pc[i] # "idle" => requests[i] = AloneRequests(i)
        /\ pc[i] = "done" => outcome[i] = AloneOutcome(i)

\* C10: under every interleaving of concurrent invocations, each invocation's
\* outcome is the one it gives alone with the same input and upstream
\* response, and no step changes the captured configuration.
C10_InvocationsIndependent == []Independent /\ [][options' = options]_vars

C10_Witness ==
    \E i, j \in Calls :
        /\ i # j
        /\ Done(i, "getUserInfo") /\ Done(j, "getUserInfo")
        /\ calledAt[i] < resumedAt[j] /\ calledAt[j] < resumedAt[i]
        /\ GotUser(i)
        /\ outcome[j] = Returned(Null)
        /\ outcome[i] = AloneOutcome(i)

=============================================================================
